---- MODULE Spec2Model ----
(***************************************************************************)
(* Model of the LLM evaluation API (src/app.py, src/database.py,           *)
(* src/models.py): the in-memory session store chat_sessions, the MongoDB  *)
(* collection of evaluations, and the two request handlers                 *)
(* generate_responses and submit_feedback.                                 *)
(*                                                                         *)
(* Both handlers are "async def" but contain no await: the provider call   *)
(* and the insert are synchronous calls, so on the event loop each handler *)
(* runs from its first line to its return or raise without another handler *)
(* in between.  Each handler is therefore one action.                      *)
(*                                                                         *)
(* Texts are triples <<kind, prompt, number>>: what the provider returned  *)
(* for a prompt at a temperature is <<"text", prompt, temperature>> (the   *)
(* provider is opaque, its text is identified by the call that produced    *)
(* it), the f-string fallback is <<"fallback", prompt, slot number>>.      *)
(* Temperatures are in tenths (0.3 is 3).  None is the string "None".      *)
(* uuid.uuid4() is a draw among the identifiers not yet used as a key (a   *)
(* collision of two random 122-bit values is disregarded).                 *)
(* datetime.utcnow() is a logical clock: every reading that ends up in a   *)
(* stored record is later than the readings stored before it.              *)
(*                                                                         *)
(*   chat_sessions   the dict of app.py:22, chat_id -> session record      *)
(*   evaluations     the documents of the MongoDB collection, in order     *)
(*   clock           the next reading of datetime.utcnow()                 *)
(*   request, reply  the last request handled and what the caller got      *)
(*   provider_calls  the generate_content calls that request made          *)
(*   db_calls        the insert_one calls that request made                *)
(*   before          chat_sessions and evaluations as that request found   *)
(*                   them                                                  *)
(***************************************************************************)
EXTENDS Integers, Sequences, FiniteSets, TLC

VARIABLES chat_sessions, evaluations, clock, request, reply,
          provider_calls, db_calls, before

vars == <<chat_sessions, evaluations, clock, request, reply,
          provider_calls, db_calls, before>>

(* ---------------------------------------------------------------- bounds *)
MaxSessions == 2
MaxRecords == 3
MaxNum == 4

ChatIds == 1..MaxSessions
Prompts == {"p1", "p2"}
Models == {"gemini-2.0-flash", "m2"}
NumResponses == (0 - MaxNum)..MaxNum
Indices == {-1, 0, 3}
Thumbs == {"up", "down"}
FeedbackTexts == {"None", "Liked the detailed specs"}
UserIds == {"user_123"}
SessionIds == {"session_456"}

(* ------------------------------------------------------------- requests *)
MultiResponseRequest ==
    [op : {"generate"}, user_prompt : Prompts, model_used : Models,
     num_responses : NumResponses]

SelectedTexts == {<<"text", "p1", 3>>, <<"typed", "anything", 0>>}

FeedbackRequest ==
    [op : {"feedback"}, chat_id : ChatIds, selected_response_index : Indices,
     selected_response_text : SelectedTexts, thumbs : Thumbs,
     feedback_text : FeedbackTexts, user_id : UserIds, session_id : SessionIds]

(* -------------------------------------------------------------- helpers *)
max_output_tokens == 500

generation_configs_descending ==
    << [temperature |-> 9], [temperature |-> 7], [temperature |-> 3] >>

generation_configs ==
    << [temperature |-> 3], [temperature |-> 7], [temperature |-> 9] >>

\* Python's seq[:n]: a negative n counts from the end, both ends clamp.
SliceTo(seq, n) ==
    LET len == Len(seq)
        stop == IF n < 0
                THEN (IF len + n < 0 THEN 0 ELSE len + n)
                ELSE (IF n > len THEN len ELSE n)
    IN  SubSeq(seq, 1, stop)

\* response.text of model.generate_content(prompt, temperature=...)
ProviderText(prompt, temperature) == <<"text", prompt, temperature>>

Fallback_zero_based(i, prompt) == <<"fallback", prompt, i>>

\* f"Response {i+1}: This is a sample response for '{prompt}'", i 0-based
Fallback(i, prompt) == <<"fallback", prompt, i + 1>>

\* The for loop: one provider call per selected configuration, in order;
\* failed is the set of (1-based) positions whose call raised.
ProviderCalls(req, failed) ==
    LET configs == SliceTo(generation_configs, req.num_responses)
    IN  [k \in 1..Len(configs) |->
            [prompt |-> req.user_prompt,
             temperature |-> configs[k].temperature,
             max_output_tokens |-> max_output_tokens,
             raised |-> (k \in failed)]]

Responses(req, calls) ==
    [k \in 1..Len(calls) |->
        IF calls[k].raised
        THEN Fallback(k - 1, req.user_prompt)
        ELSE ProviderText(calls[k].prompt, calls[k].temperature)]

SessionRecord_default_model(req, responses, now) ==
    [user_prompt |-> req.user_prompt,
     responses |-> responses,
     model_used |-> "gemini-2.0-flash",
     created_at |-> now]

SessionRecord(req, responses, now) ==
    [user_prompt |-> req.user_prompt,
     responses |-> responses,
     model_used |-> req.model_used,
     created_at |-> now]

Put_replacing(sessions, id, record) == (id :> record)

\* chat_sessions[chat_id] = {...}
Put(sessions, id, record) == (id :> record) @@ sessions

\* The fields of MultiResponseResponse and EvaluationResponse, and the status
\* and detail of an HTTPException.
NoReply ==
    [op |-> "none", status |-> 0, success |-> FALSE, detail |-> "",
     user_prompt |-> "", responses |-> <<>>, chat_id |-> 0, evaluation_id |-> 0]

Snapshot == [chat_sessions |-> chat_sessions, evaluations |-> evaluations]

(* ----------------------------------------------------------------- Init *)
Init ==
    /\ chat_sessions = << >>
    /\ evaluations = << >>
    /\ clock = 0
    /\ request = [op |-> "none"]
    /\ reply = NoReply
    /\ provider_calls = << >>
    /\ db_calls = << >>
    /\ before = [chat_sessions |-> << >>, evaluations |-> << >>]

(* -------------------------------------------------- generate_responses *)
GenerateError_keeps_partial(req) ==
    /\ reply' = [NoReply EXCEPT !.op = "generate", !.status = 500,
                                !.detail = "Failed to generate responses: client"]
    /\ provider_calls' = << >>
    /\ chat_sessions' = Put(chat_sessions,
                            CHOOSE id \in ChatIds : id \notin DOMAIN chat_sessions,
                            SessionRecord(req, << >>, clock))
    /\ UNCHANGED clock

\* except Exception of generate_responses: HTTP 500, nothing else.
GenerateError(req) ==
    /\ reply' = [NoReply EXCEPT !.op = "generate", !.status = 500,
                                !.detail = "Failed to generate responses: client"]
    /\ provider_calls' = << >>
    /\ UNCHANGED <<chat_sessions, clock>>

GenerateStore(req, failed, id) ==
    LET calls == ProviderCalls(req, failed)
        responses == Responses(req, calls)
    IN  /\ provider_calls' = calls
        /\ chat_sessions' = Put(chat_sessions, id, SessionRecord(req, responses, clock))
        /\ reply' = [NoReply EXCEPT !.op = "generate", !.status = 200,
                                    !.success = TRUE,
                                    !.user_prompt = req.user_prompt,
                                    !.responses = responses,
                                    !.chat_id = id]
        /\ clock' = clock + 1

generate_responses(req, client_ok, failed, id) ==
    /\ Cardinality(DOMAIN chat_sessions) < MaxSessions
    /\ request' = req
    /\ before' = Snapshot
    /\ db_calls' = << >>
    /\ IF client_ok THEN GenerateStore(req, failed, id) ELSE GenerateError(req)
    /\ UNCHANGED evaluations

(* ----------------------------------------------------- submit_feedback *)
EvaluationData_three_shown(fb, chat_data, now) ==
    [user_prompt |-> chat_data.user_prompt,
     all_responses |-> chat_data.responses,
     selected_response_index |-> fb.selected_response_index,
     selected_response_text |-> fb.selected_response_text,
     thumbs |-> fb.thumbs,
     feedback_text |-> fb.feedback_text,
     user_id |-> fb.user_id,
     session_id |-> fb.session_id,
     chat_id |-> fb.chat_id,
     model_used |-> chat_data.model_used,
     prompt_created_at |-> chat_data.created_at,
     responses_created_at |-> chat_data.created_at,
     feedback_created_at |-> now,
     server_received_at |-> now,
     total_responses_shown |-> Len(generation_configs)]

EvaluationData_text_by_index(fb, chat_data, now) ==
    [user_prompt |-> chat_data.user_prompt,
     all_responses |-> chat_data.responses,
     selected_response_index |-> fb.selected_response_index,
     selected_response_text |->
        IF fb.selected_response_index >= 0
           /\ fb.selected_response_index < Len(chat_data.responses)
        THEN chat_data.responses[fb.selected_response_index + 1]
        ELSE fb.selected_response_text,
     thumbs |-> fb.thumbs,
     feedback_text |-> fb.feedback_text,
     user_id |-> fb.user_id,
     session_id |-> fb.session_id,
     chat_id |-> fb.chat_id,
     model_used |-> chat_data.model_used,
     prompt_created_at |-> chat_data.created_at,
     responses_created_at |-> chat_data.created_at,
     feedback_created_at |-> now,
     server_received_at |-> now,
     total_responses_shown |-> Len(chat_data.responses)]

EvaluationData(fb, chat_data, now) ==
    [user_prompt |-> chat_data.user_prompt,
     all_responses |-> chat_data.responses,
     selected_response_index |-> fb.selected_response_index,
     selected_response_text |-> fb.selected_response_text,
     thumbs |-> fb.thumbs,
     feedback_text |-> fb.feedback_text,
     user_id |-> fb.user_id,
     session_id |-> fb.session_id,
     chat_id |-> fb.chat_id,
     model_used |-> chat_data.model_used,
     prompt_created_at |-> chat_data.created_at,
     responses_created_at |-> chat_data.created_at,
     feedback_created_at |-> now,
     server_received_at |-> now,
     total_responses_shown |-> Len(chat_data.responses)]

FeedbackNotFound_as_internal_error(fb) ==
    /\ reply' = [NoReply EXCEPT !.op = "feedback", !.status = 500,
                                !.detail = "Failed to save feedback: 404"]
    /\ db_calls' = << >>
    /\ UNCHANGED <<chat_sessions, evaluations, clock>>

\* chat_sessions.get(chat_id) is None: HTTPException 404, re-raised as it is.
FeedbackNotFound(fb) ==
    /\ reply' = [NoReply EXCEPT !.op = "feedback", !.status = 404,
                                !.detail = "Chat session not found or expired"]
    /\ db_calls' = << >>
    /\ UNCHANGED <<chat_sessions, evaluations, clock>>

AfterInsert_deletes(sessions, chat_id) ==
    [id \in DOMAIN sessions \ {chat_id} |-> sessions[id]]

\* "# del chat_sessions[feedback.chat_id]" is a comment: the session stays.
AfterInsert(sessions, chat_id) == sessions

\* self.collection.insert_one(evaluation_data)
insert_evaluation(collection, evaluation_data) == Append(collection, evaluation_data)

\* str(result.inserted_id): the identifier the store assigns to the document
inserted_id(collection) == Len(collection)

\* mongodb.insert_evaluation, which raises what insert_one raises, and the rest
\* of the handler
FeedbackInsert(fb, db_ok) ==
    LET doc == EvaluationData(fb, chat_sessions[fb.chat_id], clock)
    IN  /\ db_calls' = << [doc |-> doc, raised |-> ~db_ok] >>
        /\ IF db_ok
           THEN /\ evaluations' = insert_evaluation(evaluations, doc)
                /\ chat_sessions' = AfterInsert(chat_sessions, fb.chat_id)
                /\ reply' = [NoReply EXCEPT !.op = "feedback", !.status = 201,
                                            !.success = TRUE,
                                            !.evaluation_id = inserted_id(evaluations')]
                /\ clock' = clock + 1
           ELSE /\ reply' = [NoReply EXCEPT !.op = "feedback", !.status = 500,
                                            !.detail = "Failed to save feedback: insert"]
                /\ UNCHANGED <<chat_sessions, evaluations, clock>>

submit_feedback(fb, db_ok) ==
    /\ request' = fb
    /\ before' = Snapshot
    /\ provider_calls' = << >>
    /\ IF fb.chat_id \in DOMAIN chat_sessions
       THEN FeedbackInsert(fb, db_ok)
       ELSE FeedbackNotFound(fb)

(* ----------------------------------------------------------------- Next *)
\* The environment of one generation request: whether the provider client
\* can be built, which provider calls raise, and what uuid4 draws.
Generate(requests, failures) ==
    \E req \in requests, client_ok \in BOOLEAN :
      \E failed \in failures \cap
                     SUBSET (1..Len(SliceTo(generation_configs, req.num_responses))) :
        \E id \in ChatIds \ DOMAIN chat_sessions :
          /\ ~client_ok =>
                /\ failed = {}
                /\ \A j \in ChatIds \ DOMAIN chat_sessions : id <= j
          /\ generate_responses(req, client_ok, failed, id)

\* The environment of one feedback request: whether insert_one raises.
Feedback(requests) ==
    \E fb \in requests, db_ok \in BOOLEAN :
      /\ (fb.chat_id \notin DOMAIN chat_sessions => db_ok)
      /\ submit_feedback(fb, db_ok)

Stored == Cardinality(DOMAIN chat_sessions) + Len(evaluations)

\* The requests of Spec: two clients, one asking for two responses of the
\* default model and one for three of another, and feedback that carries a
\* comment exactly when the text was typed rather than copied.
TypicalRequests ==
    {r \in MultiResponseRequest :
        \/ r.user_prompt = "p1" /\ r.model_used = "gemini-2.0-flash" /\ r.num_responses = 2
        \/ r.user_prompt = "p2" /\ r.model_used = "m2" /\ r.num_responses = 3}

TypicalFeedback ==
    {fb \in FeedbackRequest :
        (fb.feedback_text = "None") = (fb.selected_response_text[1] = "text")}

Next ==
    /\ Stored < MaxRecords
    /\ \/ Generate(TypicalRequests, {{}})
       \/ Feedback(TypicalFeedback)

Spec == Init /\ [][Next]_vars

\* The first request of a process, over every request and provider outcome.
NextGenerate ==
    /\ chat_sessions = << >>
    /\ Generate(MultiResponseRequest, SUBSET (1..Len(generation_configs)))

SpecGenerate == Init /\ [][NextGenerate]_vars

(* ------------------------------------------------------------ properties *)
Generated == reply.op = "generate" /\ reply.status = 200
GenerateFailed == reply.op = "generate" /\ reply.status = 500
FeedbackSent == reply.op = "feedback"
KnownBefore == FeedbackSent /\ request.chat_id \in DOMAIN before.chat_sessions
InsertAccepted == db_calls # << >> /\ ~db_calls[1].raised
LastEvaluation == evaluations[Len(evaluations)]
Temperature(k) == << 3, 7, 9 >>[k]

\* C1: a successful generation for num_responses >= 1 returns min(num_responses, 3)
\* texts, text k being the outcome of the call made with the k-th temperature of
\* 0.3, 0.7, 0.9 for the request's prompt (its text, or the fallback of that slot).
C1_PrefixOfTemperatures ==
    /\ (reply.op = "generate" /\ reply.status # 200) =>
          (reply.status = 500 /\ reply.detail = "Failed to generate responses: client")
    /\ (Generated /\ request.num_responses >= 1) =>
        LET n == request.num_responses
            m == IF n < 3 THEN n ELSE 3
        IN  /\ reply.success
            /\ Len(reply.responses) = m
            /\ Len(provider_calls) = m
            /\ \A k \in 1..m :
                 /\ provider_calls[k].temperature = Temperature(k)
                 /\ provider_calls[k].prompt = request.user_prompt
                 /\ provider_calls[k].max_output_tokens = 500
                 /\ reply.responses[k] \in
                      { <<"text", request.user_prompt, Temperature(k)>>,
                        <<"fallback", request.user_prompt, k>> }

C1_Witness ==
    /\ Generated
    /\ request.num_responses = 4
    /\ reply.responses = << <<"text", request.user_prompt, 3>>,
                            <<"text", request.user_prompt, 7>>,
                            <<"text", request.user_prompt, 9>> >>

\* C2: a successful generation returns a chat_id that was no key of the session
\* store before the call and is one after it, and the record under it holds the
\* request's user_prompt, the returned texts in order, and the request's model_used.
C2_FreshSessionStored ==
    Generated =>
        /\ reply.chat_id \notin DOMAIN before.chat_sessions
        /\ reply.chat_id \in DOMAIN chat_sessions
        /\ chat_sessions[reply.chat_id].user_prompt = request.user_prompt
        /\ chat_sessions[reply.chat_id].responses = reply.responses
        /\ chat_sessions[reply.chat_id].model_used = request.model_used

C2_Witness ==
    /\ Generated
    /\ before.chat_sessions # << >>
    /\ request.model_used = "m2"
    /\ Len(chat_sessions[reply.chat_id].responses) = 3

\* C3: feedback for a chat_id that is no key of the session store gets 404 (not
\* 500), makes no insert, and leaves the session store and the collection as they were.
C3_UnknownChatNotFound ==
    (FeedbackSent /\ request.chat_id \notin DOMAIN before.chat_sessions) =>
        /\ reply.status = 404
        /\ reply.detail = "Chat session not found or expired"
        /\ ~reply.success
        /\ db_calls = << >>
        /\ evaluations = before.evaluations
        /\ chat_sessions = before.chat_sessions

C3_Witness ==
    /\ FeedbackSent
    /\ reply.status = 404
    /\ before.chat_sessions # << >>
    /\ request.chat_id \notin DOMAIN chat_sessions

\* C4: feedback for a known chat_id whose insert is accepted adds exactly one
\* record to the collection: prompt, texts and model are the stored session's, the
\* vote fields are the submitted ones, total_responses_shown is the number of texts.
C4_OneRecordFromSessionAndVote ==
    (KnownBefore /\ InsertAccepted) =>
        LET session == before.chat_sessions[request.chat_id]
        IN  /\ reply.status = 201
            /\ Len(evaluations) = Len(before.evaluations) + 1
            /\ SubSeq(evaluations, 1, Len(before.evaluations)) = before.evaluations
            /\ LastEvaluation.user_prompt = session.user_prompt
            /\ LastEvaluation.all_responses = session.responses
            /\ LastEvaluation.model_used = session.model_used
            /\ LastEvaluation.selected_response_index = request.selected_response_index
            /\ LastEvaluation.selected_response_text = request.selected_response_text
            /\ LastEvaluation.thumbs = request.thumbs
            /\ LastEvaluation.feedback_text = request.feedback_text
            /\ LastEvaluation.user_id = request.user_id
            /\ LastEvaluation.session_id = request.session_id
            /\ LastEvaluation.total_responses_shown = Len(session.responses)

C4_Witness ==
    /\ KnownBefore
    /\ reply.status = 201
    /\ Cardinality(DOMAIN before.chat_sessions) = 2
    /\ LastEvaluation.total_responses_shown = 2
    /\ LastEvaluation.thumbs = "down"

\* C5: when the provider call of a slot raises, the text returned and stored for
\* that slot is the fallback built from the prompt and the 1-based slot number,
\* every other slot holds what its own call produced, every selected configuration
\* is still called, and the request succeeds and stores its session.
C5_FallbackPerSlot ==
    (reply.op = "generate" /\ provider_calls # << >>) =>
        LET n == request.num_responses
            selected == IF n >= 3 THEN 3 ELSE IF n >= 0 THEN n ELSE Len(provider_calls)
        IN  /\ reply.status = 200
            /\ reply.success
            /\ Len(provider_calls) = selected
            /\ Len(reply.responses) = selected
            /\ reply.chat_id \in DOMAIN chat_sessions
            /\ chat_sessions[reply.chat_id].responses = reply.responses
            /\ \A k \in 1..selected :
                 reply.responses[k] =
                    IF provider_calls[k].raised
                    THEN <<"fallback", request.user_prompt, k>>
                    ELSE <<"text", request.user_prompt, provider_calls[k].temperature>>

C5_Witness ==
    /\ Generated
    /\ Len(provider_calls) = 3
    /\ ~provider_calls[1].raised
    /\ provider_calls[2].raised
    /\ ~provider_calls[3].raised
    /\ chat_sessions[reply.chat_id].responses[2] = <<"fallback", request.user_prompt, 2>>

\* C6: an accepted feedback leaves the session in the store unchanged, and feedback
\* for a chat_id that already has a record in the collection is handled like the
\* first: it is not refused, and when its insert is accepted the earlier records
\* stay and a further record with the newly submitted vote is added.
C6_SessionNotConsumed ==
    /\ (FeedbackSent /\ reply.status = 201) =>
          /\ request.chat_id \in DOMAIN chat_sessions
          /\ chat_sessions = before.chat_sessions
    /\ (FeedbackSent /\ \E i \in 1..Len(before.evaluations) :
                            before.evaluations[i].chat_id = request.chat_id) =>
          /\ reply.status # 404
          /\ db_calls # << >>
          /\ InsertAccepted =>
                /\ reply.status = 201
                /\ evaluations = Append(before.evaluations, LastEvaluation)
                /\ LastEvaluation.chat_id = request.chat_id
                /\ LastEvaluation.thumbs = request.thumbs
                /\ LastEvaluation.selected_response_index = request.selected_response_index

C6_Witness ==
    /\ FeedbackSent
    /\ reply.status = 201
    /\ Len(evaluations) = 2
    /\ evaluations[1].chat_id = evaluations[2].chat_id
    /\ evaluations[1].thumbs = "up"
    /\ evaluations[2].thumbs = "down"
    /\ evaluations[1].selected_response_index # evaluations[2].selected_response_index

\* C7: for a known chat_id no selected_response_index is refused, negative or past
\* the stored texts included: index and selected_response_text are written to the
\* record as submitted, the text is not compared with the text at that index.
C7_IndexAndTextVerbatim ==
    KnownBefore =>
        /\ reply.status \in {201, 500}
        /\ reply.status = 500 => (db_calls # << >> /\ db_calls[1].raised)
        /\ InsertAccepted =>
              /\ reply.status = 201
              /\ LastEvaluation.selected_response_index = request.selected_response_index
              /\ LastEvaluation.selected_response_text = request.selected_response_text

C7_Witness ==
    /\ KnownBefore
    /\ reply.status = 201
    /\ request.selected_response_index >= Len(LastEvaluation.all_responses)
    /\ LastEvaluation.selected_response_index = 3
    /\ \A k \in 1..Len(LastEvaluation.all_responses) :
          LastEvaluation.all_responses[k] # LastEvaluation.selected_response_text

C7_WitnessNegative ==
    /\ KnownBefore
    /\ reply.status = 201
    /\ LastEvaluation.selected_response_index = -1

\* C8: the session stored by a generation holds at most as many texts as the
\* num_responses of its request, for every integer num_responses.
C8_AtMostRequested ==
    Generated =>
        Len(chat_sessions[reply.chat_id].responses) <= request.num_responses

\* C9: a generation that fails as a whole gets 500 and leaves the session store as
\* it was: no session of that request is stored and nothing is inserted.
C9_FailedGenerationStoresNothing ==
    reply.op = "generate" =>
        /\ reply.status \in {200, 500}
        /\ reply.status = 500 =>
              /\ ~reply.success
              /\ reply.chat_id \notin DOMAIN chat_sessions
              /\ chat_sessions = before.chat_sessions
              /\ evaluations = before.evaluations
              /\ db_calls = << >>

C9_Witness ==
    /\ GenerateFailed
    /\ chat_sessions # << >>
    /\ evaluations # << >>

\* C10: the session store only grows: every request leaves each stored session in
\* the store with the same prompt, texts, model and creation time, and the only key
\* a request adds is the chat_id of a generation that completed.
C10_StoreOnlyGrows ==
    /\ \A id \in DOMAIN before.chat_sessions :
          /\ id \in DOMAIN chat_sessions
          /\ chat_sessions[id] = before.chat_sessions[id]
    /\ DOMAIN chat_sessions \ DOMAIN before.chat_sessions =
          IF Generated THEN {reply.chat_id} ELSE {}

C10_Witness ==
    /\ Generated
    /\ Cardinality(DOMAIN chat_sessions) = 2
    /\ Cardinality(DOMAIN before.chat_sessions) = 1
    /\ evaluations # << >>
====
